---------------------------- MODULE Spec2Model ----------------------------
(***************************************************************************)
(* A model of the ECLS-K extraction scripts                                *)
(*   src/code/data_extraction.py        ("data_extraction")                *)
(*   src/code/extraction0.py            ("extraction0")                    *)
(*   src/code/extraction1.py            ("extraction1")                    *)
(*   src/extract_ecls_variables.py      ("extract_ecls_variables")         *)
(* Text is modelled as a sequence of one-character strings.  A decoded     *)
(* cell is a record [k, n, e, s]: k is the kind ("nan", "none", "int",     *)
(* "float", "str"), n / 10^e the number and s the text.                    *)
(***************************************************************************)
EXTENDS Integers, Sequences, FiniteSets, TLC

VARIABLES
    script,          \* which script is running
    pc,              \* position of the script
    dct,             \* the dictionary file: a sequence of token lines
    var_specs,       \* the schema the script extracts with
    variant,         \* which flat data file is on disk
    consumed,        \* physical lines read from the flat file so far
    current_record,  \* the buffer of accumulated lines
    data_rows,       \* the rows emitted so far
    crash,           \* the uncaught exception that ended the run, or "none"
    written,         \* the output files written so far
    dec,             \* the result of the last single-field decode
    df_existing,     \* the canonical table
    df_new,          \* the extracted table
    df_complete,     \* the merged table, or the merge's outcome
    all_columns,     \* create_both_versions.py: the wide table's column names
    flexible_vars,   \* create_both_versions.py: variables of the FLEXIBLE version
    complete_vars    \* create_both_versions.py: variables of the COMPLETE version

vars == <<script, pc, dct, var_specs, variant, consumed, current_record,
          data_rows, crash, written, dec, df_existing, df_new, df_complete,
          all_columns, flexible_vars, complete_vars>>

\* The state of create_both_versions.py, which the extraction scripts never
\* touch.
versionVars == <<all_columns, flexible_vars, complete_vars>>
NoVars == [v \in {} |-> <<>>]
NoVersions == all_columns = {} /\ flexible_vars = NoVars /\ complete_vars = NoVars

Scripts == {"data_extraction", "extraction0", "extraction1", "extract_ecls_variables"}

\* Number of physical lines per record (LINES_PER_CHILD, the literal 27).
LINES_PER_RECORD == 27

-----------------------------------------------------------------------------
(* Python text primitives *)

Min(a, b) == IF a < b THEN a ELSE b
Max(a, b) == IF a > b THEN a ELSE b

\* Characters str.strip() removes.
Whitespace == {" "}

Digits == {"0", "1", "2", "3", "4", "5", "6", "7", "8", "9"}

DigitVal(c) ==
    CASE c = "0" -> 0 [] c = "1" -> 1 [] c = "2" -> 2 [] c = "3" -> 3
      [] c = "4" -> 4 [] c = "5" -> 5 [] c = "6" -> 6 [] c = "7" -> 7
      [] c = "8" -> 8 [] c = "9" -> 9

\* s[start:stop] for a Python sequence and integer bounds.
PySliceOneBased(s, start, stop) ==
    LET n == Len(s)
        a == IF start + 1 < 0 THEN Max(n + start + 1, 0) ELSE Min(start + 1, n)
        b == IF stop + 1 < 0 THEN Max(n + stop + 1, 0) ELSE Min(stop + 1, n)
    IN  IF a >= b THEN <<>> ELSE SubSeq(s, a + 1, b)
PySlice(s, start, stop) ==
    LET n == Len(s)
        a == IF start < 0 THEN Max(n + start, 0) ELSE Min(start, n)
        b == IF stop < 0 THEN Max(n + stop, 0) ELSE Min(stop, n)
    IN  IF a >= b THEN <<>> ELSE SubSeq(s, a + 1, b)

\* s[start:]
PySliceFrom(s, start) == PySlice(s, start, Len(s))

RECURSIVE LStrip(_)
LStrip(s) ==
    IF s # <<>> /\ Head(s) \in Whitespace THEN LStrip(Tail(s)) ELSE s

RECURSIVE RStrip(_)
RStrip(s) ==
    IF s # <<>> /\ s[Len(s)] \in Whitespace
    THEN RStrip(SubSeq(s, 1, Len(s) - 1)) ELSE s

\* str.strip()
Strip(s) == RStrip(LStrip(s))

AllDigits(s) == s # <<>> /\ \A i \in 1..Len(s) : s[i] \in Digits

RECURSIVE DigitsValue(_)
DigitsValue(s) ==
    IF s = <<>> THEN 0
    ELSE 10 * DigitsValue(SubSeq(s, 1, Len(s) - 1)) + DigitVal(s[Len(s)])

HasSign(s) == s # <<>> /\ Head(s) \in {"-", "+"}
Unsigned(s) == IF HasSign(s) THEN Tail(s) ELSE s
SignOf(s) == IF s # <<>> /\ Head(s) = "-" THEN -1 ELSE 1

\* int(s) succeeds: optional surrounding whitespace, optional sign, digits.
IntParses(s) == AllDigits(Unsigned(Strip(s)))
IntValue(s) == SignOf(Strip(s)) * DigitsValue(Unsigned(Strip(s)))

\* Position of the first "." in s, or 0.
DotAt(s) ==
    IF \E i \in 1..Len(s) : s[i] = "."
    THEN CHOOSE i \in 1..Len(s) : s[i] = "." /\ \A j \in 1..(i - 1) : s[j] # "."
    ELSE 0

\* float(s) succeeds, for text over digits, sign, "." and other characters
\* that are not part of an exponent, "inf", "nan" or "_" grouping.
FloatParses(s) ==
    LET u == Unsigned(Strip(s))
        d == DotAt(u)
        ip == IF d = 0 THEN u ELSE SubSeq(u, 1, d - 1)
        fp == IF d = 0 THEN <<>> ELSE SubSeq(u, d + 1, Len(u))
    IN  /\ ip \o fp # <<>>
        /\ \A i \in 1..Len(ip) : ip[i] \in Digits
        /\ \A i \in 1..Len(fp) : fp[i] \in Digits


\* Number and decimal exponent of float(s): the value is n / 10^e, with the
\* trailing zeros of the fraction removed.
RECURSIVE Normalize(_, _)
Normalize(n, e) ==
    IF e > 0 /\ n % 10 = 0 THEN Normalize(n \div 10, e - 1) ELSE <<n, e>>

FloatValue(s) ==
    LET u == Unsigned(Strip(s))
        d == DotAt(u)
        ip == IF d = 0 THEN u ELSE SubSeq(u, 1, d - 1)
        fp == IF d = 0 THEN <<>> ELSE SubSeq(u, d + 1, Len(u))
        ne == Normalize(DigitsValue(ip \o fp), Len(fp))
    IN  <<SignOf(Strip(s)) * ne[1], ne[2]>>

-----------------------------------------------------------------------------
(* Decoded cells *)

NaN == [k |-> "nan", n |-> 0, e |-> 0, s |-> <<>>]
None == [k |-> "none", n |-> 0, e |-> 0, s |-> <<>>]
IntCell(v) == [k |-> "int", n |-> v, e |-> 0, s |-> <<>>]
FloatCell(ne) == [k |-> "float", n |-> ne[1], e |-> ne[2], s |-> <<>>]
StrCell(t) == [k |-> "str", n |-> 0, e |-> 0, s |-> t]

\* The missing marker: numpy's nan or Python's None (both are NA in a frame).
IsMissing(c) == c.k \in {"nan", "none"}

\* The sentinel codes each script turns into the missing marker.
Sentinels4 == {<<"-", "9">>, <<"-", "8">>, <<"-", "7">>, <<"-", "1">>}
Sentinels7 == Sentinels4 \cup {<<"-", "4">>, <<"-", "3">>, <<"-", "2">>}
SentinelsDataExtraction == Sentinels4
SentinelsExtraction1 == Sentinels7

\* seq[i] for a Python list of n items: a negative index counts from the end.
PyIndexOk(n, i) == -n <= i /\ i < n
PyIndexPos(n, i) == IF i < 0 THEN n + i + 1 ELSE i + 1

\* The outcome of decoding one field: err is the exception that escaped
\* ("none" if none did), src the 1-based buffer line that was read (0 if
\* none), window whether a substring was taken, raw the substring before
\* strip(), trimmed the one after, value the decoded cell.
Outcome(err, src, window, raw, trimmed, value) ==
    [err |-> err, src |-> src, window |-> window, raw |-> raw,
     trimmed |-> trimmed, value |-> value]

-----------------------------------------------------------------------------
(* Field Decoder of data_extraction.py, lines 172-214 *)

\* The substring before strip(); empty when the line does not reach
\* col_start.
DataExtractionRawShortIsEmpty(line_text, col_start, col_end) ==
    IF Len(line_text) >= col_end
    THEN PySlice(line_text, col_start, col_end)
    ELSE <<>>
DataExtractionRaw(line_text, col_start, col_end) ==
    IF Len(line_text) > col_start
    THEN IF Len(line_text) >= col_end
         THEN PySlice(line_text, col_start, col_end)
         ELSE PySliceFrom(line_text, col_start)
    ELSE <<>>

DataExtractionValueByNumber(dtype, raw_value) ==
    CASE dtype = "int" ->
           IF IntParses(raw_value) /\ IntValue(raw_value) \notin {-9, -8, -7, -1}
           THEN IntCell(IntValue(raw_value)) ELSE NaN
      [] dtype = "float" ->
           IF FloatParses(raw_value)
              /\ FloatValue(raw_value) \notin {<<-9, 0>>, <<-8, 0>>, <<-7, 0>>, <<-1, 0>>}
           THEN FloatCell(FloatValue(raw_value)) ELSE NaN
      [] OTHER -> StrCell(raw_value)
DataExtractionValue(dtype, raw_value) ==
    CASE dtype = "int" ->
           IF raw_value # <<>> /\ raw_value \notin SentinelsDataExtraction
           THEN IF IntParses(raw_value) THEN IntCell(IntValue(raw_value)) ELSE NaN
           ELSE NaN
      [] dtype = "float" ->
           IF raw_value # <<>> /\ raw_value \notin SentinelsDataExtraction
           THEN IF FloatParses(raw_value) THEN FloatCell(FloatValue(raw_value)) ELSE NaN
           ELSE NaN
      [] OTHER -> StrCell(raw_value)

DataExtractionDecode(spec, rec) ==
    LET line_num == spec.line - 1
        col_start == spec.col - 1
        col_end == col_start + spec.width
    IN  IF line_num < Len(rec)
        THEN IF PyIndexOk(Len(rec), line_num)
             THEN LET src == PyIndexPos(Len(rec), line_num)
                      raw == DataExtractionRaw(rec[src], col_start, col_end)
                      raw_value == IF Len(rec[src]) > col_start THEN Strip(raw) ELSE <<>>
                  IN  Outcome("none", src, TRUE, raw, raw_value,
                              DataExtractionValue(spec.dtype, raw_value))
             ELSE \* IndexError, caught by "except Exception"
                  Outcome("none", 0, FALSE, <<>>, <<>>, NaN)
        ELSE Outcome("none", 0, FALSE, <<>>, <<>>, NaN)

-----------------------------------------------------------------------------
(* Field Decoder of extraction0.py, lines 131-148, and of                  *)
(* extract_ecls_variables.py, lines 125-144 (the same code)                *)

Extraction0Value(dtype, value) ==
    CASE dtype = "int" ->
           IF value # <<>>
           THEN IF IntParses(value) THEN IntCell(IntValue(value)) ELSE None
           ELSE None
      [] dtype = "float" ->
           IF value # <<>>
           THEN IF FloatParses(value) THEN FloatCell(FloatValue(value)) ELSE None
           ELSE None
      [] OTHER -> IF value # <<>> THEN StrCell(value) ELSE None

Extraction0Decode(spec, rec) ==
    IF PyIndexOk(Len(rec), spec.line - 1)
    THEN LET src == PyIndexPos(Len(rec), spec.line - 1)
             start == spec.col - 1
             end == start + spec.width
             raw == PySlice(rec[src], start, end)
             value == Strip(raw)
         IN  Outcome("none", src, TRUE, raw, value, Extraction0Value(spec.dtype, value))
    ELSE Outcome("IndexError", 0, FALSE, <<>>, <<>>, None)

-----------------------------------------------------------------------------
(* Field Decoder of extraction1.py, lines 220-252 *)

Extraction1Value(dtype, value_str) ==
    CASE dtype = "int" ->
           IF value_str = <<>> \/ value_str \in SentinelsExtraction1
           THEN None
           ELSE IF IntParses(value_str) THEN IntCell(IntValue(value_str)) ELSE None
      [] dtype = "float" ->
           IF value_str = <<>> \/ value_str \in SentinelsExtraction1
           THEN None
           ELSE IF FloatParses(value_str) THEN FloatCell(FloatValue(value_str)) ELSE None
      [] OTHER -> IF value_str # <<>> THEN StrCell(value_str) ELSE None

Extraction1Decode(spec, rec) ==
    LET line_idx == spec.line - 1
        col_start == spec.col - 1
        col_end == col_start + spec.width
    IN  IF PyIndexOk(Len(rec), line_idx)
        THEN LET src == PyIndexPos(Len(rec), line_idx)
                 raw == PySlice(rec[src], col_start, col_end)
                 value_str == Strip(raw)
             IN  Outcome("none", src, TRUE, raw, value_str,
                         Extraction1Value(spec.dtype, value_str))
        ELSE \* except IndexError: value_str = ""
             Outcome("none", 0, FALSE, <<>>, <<>>, Extraction1Value(spec.dtype, <<>>))

\* The Field Decoder of each script.
DecodeField(s, spec, rec) ==
    CASE s = "data_extraction" -> DataExtractionDecode(spec, rec)
      [] s = "extraction1" -> Extraction1Decode(spec, rec)
      [] OTHER -> Extraction0Decode(spec, rec)


-----------------------------------------------------------------------------
(* Width and type each Schema Parser derives from a Stata type token *)

IntWidthDataExtraction == 8
FloatWidthDataExtraction == 12
IntWidthExtraction0 == 7
FloatWidthExtraction0 == 11
FallbackWidth == 10
LastFieldWidth == 20

-----------------------------------------------------------------------------
(* The Field Decoder applied to one field of one record *)

MaxTextLen == 3
MaxCol == 2
MaxWidth == 2

DecodeChars == {" ", "-", "9", "."}

RECURSIVE TextsUpTo(_)
TextsUpTo(n) ==
    IF n = 0 THEN {<<>>}
    ELSE LET shorter == TextsUpTo(n - 1)
         IN  shorter \cup {Append(t, c) : t \in shorter, c \in DecodeChars}

ExtraTexts ==
    { <<"-", "8">>, <<"-", "7">>, <<"-", "1">>, <<"-", "2">>, <<"-", "4">>,
      <<" ", "-", "1", " ">>, <<"4", "2">>, <<"0", "4", "2">>,
      <<" ", " ", "4", "2", " ", " ">>, <<" ", " ", " ", " ", " ", " ">>,
      <<"4", "x">>, <<"-", "9", ".", "0">>, <<"4", ".", "5", "0">>,
      <<" ", "-", "3", ".", "5", " ", " ", " ", " ", " ", " ", " ", "9">>,
      <<" ", " ", " ", " ", "1", "7", " ", " ", " ", " ", " ", " ", " ", "x">> }

DecodeTexts == TextsUpTo(MaxTextLen) \cup ExtraTexts

\* A record whose first line is t; its last line differs from it.
RecordOf(t) ==
    [i \in 1..LINES_PER_RECORD |->
        IF i = 1 THEN t
        ELSE IF i = LINES_PER_RECORD THEN <<"7">> \o t ELSE <<"x">>]

\* The (dtype, width) pairs the script's Schema Parser can give a field.
FieldShapes(s) ==
    LET str == {<<"str", w>> : w \in 0..MaxWidth}
    IN  CASE s = "data_extraction" ->
               str \cup {<<"int", IntWidthDataExtraction>>,
                         <<"float", FloatWidthDataExtraction>>,
                         <<"str", FallbackWidth>>}
          [] s = "extraction1" ->
               {<<d, w>> : d \in {"str", "int", "float"},
                           w \in (0..MaxWidth) \cup {LastFieldWidth}}
          [] OTHER ->
               str \cup {<<"int", IntWidthExtraction0>>,
                         <<"float", FloatWidthExtraction0>>,
                         <<"str", FallbackWidth>>}

DecodeLines == {0, 1, LINES_PER_RECORD, LINES_PER_RECORD + 1}

DecodeSpecs(s) ==
    {[name |-> "X", line |-> l, col |-> c, width |-> sh[2], dtype |-> sh[1]] :
        l \in DecodeLines, c \in 0..MaxCol, sh \in FieldShapes(s)}

NoOutcome == Outcome("none", 0, FALSE, <<>>, <<>>, None)
NoTable == [cols |-> <<>>, rows |-> <<>>]

InitDecode ==
    /\ NoVersions
    /\ script \in Scripts
    /\ pc = "decode"
    /\ var_specs \in {<<sp>> : sp \in DecodeSpecs(script)}
    /\ current_record \in {RecordOf(t) : t \in DecodeTexts}
    /\ dec = NoOutcome
    /\ dct = <<>> /\ variant = 0 /\ consumed = 0 /\ data_rows = <<>>
    /\ crash = "none" /\ written = {}
    /\ df_existing = NoTable /\ df_new = NoTable /\ df_complete = NoTable

DecodeOne ==
    /\ pc = "decode"
    /\ dec' = DecodeField(script, var_specs[1], current_record)
    /\ pc' = "decoded"
    /\ UNCHANGED versionVars
    /\ UNCHANGED <<script, dct, var_specs, variant, consumed, current_record,
                   data_rows, crash, written, df_existing, df_new, df_complete>>

NextDecode == DecodeOne

SpecDecode == InitDecode /\ [][NextDecode]_vars


-----------------------------------------------------------------------------
(* The dictionary file: a sequence of lines, each a sequence of            *)
(* whitespace-separated tokens.  A token is `_line(n)`, `_column(n)` or    *)
(* any other word.                                                         *)

LineTok(k) == [t |-> "line", n |-> k, w |-> "_line"]
ColTok(c) == [t |-> "col", n |-> c, w |-> "_column"]
Word(w) == [t |-> "word", n |-> 0, w |-> w]

\* str.upper() and str.lower() on the words the dictionaries use.
Upper(w) ==
    CASE w = "childid" -> "CHILDID"
      [] w = "x1tchcon" -> "X1TCHCON"
      [] w = "score" -> "SCORE"
      [] w = "_column" -> "_COLUMN"
      [] w = "_line" -> "_LINE"
      [] OTHER -> w
Lower(w) ==
    CASE w = "LONG" -> "long"
      [] w = "STR2" -> "str2"
      [] w = "CHILDID" -> "childid"
      [] w = "X1TCHCON" -> "x1tchcon"
      [] w = "X2HPARNT" -> "x2hparnt"
      [] w = "X1KAGE" -> "x1kage"
      [] OTHER -> w

\* var_type.startswith("str"), and int(var_type[3:]).
StartsWithStr(w) == w \in {"str", "str0", "str2", "str8", "strL"}
StrSuffixParses(w) == w \in {"str0", "str2", "str8"}
StrSuffixValue(w) == CASE w = "str0" -> 0 [] w = "str2" -> 2 [] w = "str8" -> 8

\* re.search(r"_line\((\d+)\)", line) and re.search(r"_column\((\d+)\)", line):
\* the number of the first marker of that kind.
HasMarkerColumnOnly(ln, kind) == kind = "col" /\ \E i \in 1..Len(ln) : ln[i].t = kind
HasMarker(ln, kind) == \E i \in 1..Len(ln) : ln[i].t = kind
FirstMarker(ln, kind) ==
    ln[CHOOSE i \in 1..Len(ln) :
          ln[i].t = kind /\ \A j \in 1..(i - 1) : ln[j].t # kind].n

\* next(i for i, p in enumerate(parts) if "_column" in p): 0-based.
ColIndex(ln) ==
    (CHOOSE i \in 1..Len(ln) :
        ln[i].w = "_column" /\ \A j \in 1..(i - 1) : ln[j].w # "_column") - 1

\* The names each script extracts, among the names the dictionaries use.
\* data_extraction.py takes CHILDID and every name one of its patterns
\* (TCH, HPARNT, KAGE, ...) is found in; the others list REQUIRED_VARS.
Required(s) ==
    CASE s \in {"data_extraction", "extract_ecls_variables"} ->
           {"CHILDID", "X1TCHCON", "X2HPARNT", "X1KAGE"}
      [] OTHER -> {"CHILDID", "X1TCHCON", "X2HPARNT"}

FieldSpec(name, line, col, width, dtype) ==
    [name |-> name, line |-> line, col |-> col, width |-> width, dtype |-> dtype]

\* The outcome of a Schema Parser: err is the uncaught exception ("none" if
\* none), specs the schema.
Parsed(err, specs) == [err |-> err, specs |-> specs]

-----------------------------------------------------------------------------
(* Schema Parser of extraction0.py, lines 61-104, and of                   *)
(* extract_ecls_variables.py, lines 43-92 (the same code)                  *)

\* Width and dtype from the type token; width -1 stands for the ValueError
\* of int(var_type[3:]).
Extraction0Shape(var_type) ==
    IF StartsWithStr(var_type)
    THEN IF StrSuffixParses(var_type)
         THEN <<"str", StrSuffixValue(var_type)>>
         ELSE <<"ValueError", -1>>
    ELSE IF var_type \in {"byte", "int", "long"} THEN <<"int", IntWidthExtraction0>>
    ELSE IF var_type \in {"float", "double"} THEN <<"float", FloatWidthExtraction0>>
    ELSE <<"str", FallbackWidth>>

RECURSIVE Extraction0Parse(_, _, _, _, _)
Extraction0Parse(s, lines, i, current_line_num, acc) ==
    IF i > Len(lines) THEN Parsed("none", acc)
    ELSE
      LET ln == lines[i]
          cur == IF HasMarker(ln, "line") THEN FirstMarker(ln, "line")
                 ELSE current_line_num
      IN  IF HasMarker(ln, "col") /\ Len(ln) > ColIndex(ln) + 2
          THEN LET col_pos == FirstMarker(ln, "col")
                   var_type == ln[ColIndex(ln) + 2].w
                   var_name == ln[ColIndex(ln) + 3].w
                   shape == Extraction0Shape(var_type)
               IN  IF shape[1] = "ValueError" THEN Parsed("ValueError", acc)
                   ELSE IF Upper(var_name) \in Required(s)
                   THEN Extraction0Parse(s, lines, i + 1, cur,
                            Append(acc, FieldSpec(Upper(var_name), cur, col_pos,
                                                  shape[2], shape[1])))
                   ELSE Extraction0Parse(s, lines, i + 1, cur, acc)
          ELSE Extraction0Parse(s, lines, i + 1, cur, acc)

-----------------------------------------------------------------------------
(* Schema Parser of data_extraction.py, lines 18-135 *)

\* all_dict_variables[var_name] = {...}: a dict keeps the position of the
\* key's first insertion and the value of its last.
DictPut(entries, e) ==
    IF \E k \in 1..Len(entries) : entries[k].name = e.name
    THEN [k \in 1..Len(entries) |->
            IF entries[k].name = e.name THEN e ELSE entries[k]]
    ELSE Append(entries, e)

RECURSIVE DataExtractionDiscover(_, _, _, _)
DataExtractionDiscover(lines, i, current_line_number, acc) ==
    IF i > Len(lines) THEN acc
    ELSE
      LET ln == lines[i]
          cur == IF HasMarker(ln, "line") THEN FirstMarker(ln, "line")
                 ELSE current_line_number
      IN  IF /\ HasMarker(ln, "col")
             /\ ColIndex(ln) # 0          \* "if col_index and ..."
             /\ Len(ln) > ColIndex(ln) + 2
          THEN DataExtractionDiscover(lines, i + 1, cur,
                  DictPut(acc, [name |-> Upper(ln[ColIndex(ln) + 3].w),
                                line |-> cur,
                                column |-> FirstMarker(ln, "col"),
                                type |-> ln[ColIndex(ln) + 2].w]))
          ELSE DataExtractionDiscover(lines, i + 1, cur, acc)

DataExtractionShape(var_type) ==
    IF StartsWithStr(var_type)
    THEN <<"str", IF StrSuffixParses(var_type) THEN StrSuffixValue(var_type)
                  ELSE FallbackWidth>>
    ELSE IF var_type \in {"byte", "int", "long"} THEN <<"int", IntWidthDataExtraction>>
    ELSE IF var_type \in {"float", "double"} THEN <<"float", FloatWidthDataExtraction>>
    ELSE <<"str", FallbackWidth>>

\* variable_specs for the names in `order` (variables_to_extract).
DataExtractionSpecs(all_dict_variables, order) ==
    [k \in 1..Len(order) |->
        LET spec == CHOOSE e \in {all_dict_variables[j] :
                                     j \in 1..Len(all_dict_variables)} :
                        e.name = order[k]
            shape == DataExtractionShape(spec.type)
        IN  FieldSpec(spec.name, spec.line, spec.column, shape[2], shape[1])]

\* The orders list(set(variables_to_extract)) can come out in.
Orderings(S) ==
    {o \in [1..Cardinality(S) -> S] : \A a, b \in 1..Cardinality(S) : o[a] = o[b] => a = b}

DataExtractionSchemas(lines) ==
    LET all == DataExtractionDiscover(lines, 1, 1, <<>>)
        wanted == {all[j].name : j \in 1..Len(all)} \cap Required("data_extraction")
    IN  {DataExtractionSpecs(all, o) : o \in Orderings(wanted)}

-----------------------------------------------------------------------------
(* Schema Parser of extraction1.py, lines 96-191 *)

RECURSIVE Extraction1Collect(_, _, _, _)
Extraction1Collect(lines, i, current_line, all_cols) ==
    IF i > Len(lines) THEN all_cols
    ELSE
      LET ln == lines[i]
      IN  IF HasMarker(ln, "line")
          THEN \* current_line = ...; continue
               Extraction1Collect(lines, i + 1, FirstMarker(ln, "line"), all_cols)
          ELSE IF HasMarker(ln, "col") /\ Len(ln) > ColIndex(ln) + 2
          THEN Extraction1Collect(lines, i + 1, current_line,
                  Append(all_cols,
                         [name |-> Upper(ln[ColIndex(ln) + 3].w),
                          line |-> current_line,
                          col |-> FirstMarker(ln, "col"),
                          vtype |-> Lower(ln[ColIndex(ln) + 2].w)]))
          ELSE Extraction1Collect(lines, i + 1, current_line, all_cols)

\* Entry a comes before entry b once their line's list is sorted by column
\* (list.sort is stable).
SortsBefore(all_cols, a, b) ==
    \/ all_cols[a].col < all_cols[b].col
    \/ all_cols[a].col = all_cols[b].col /\ a < b

\* spec["width"] of entry k: the gap to the next entry of the same line in
\* sorted order, 20 for the last one.
Extraction1Width(all_cols, k) ==
    LET later == {j \in 1..Len(all_cols) :
                     all_cols[j].line = all_cols[k].line /\ SortsBefore(all_cols, k, j)}
    IN  IF later = {} THEN LastFieldWidth
        ELSE LET nxt == CHOOSE j \in later :
                            \A j2 \in later : j = j2 \/ SortsBefore(all_cols, j, j2)
             IN  all_cols[nxt].col - all_cols[k].col

Extraction1Dtype(vtype) ==
    IF StartsWithStr(vtype) THEN "str"
    ELSE IF vtype \in {"byte", "int", "long"} THEN "int"
    ELSE IF vtype \in {"float", "double"} THEN "float"
    ELSE "str"

\* The width read back for entry k: that of the first entry of the sorted
\* line list with the same name and column.
Extraction1Lookup(all_cols, k) ==
    LET same == {j \in 1..Len(all_cols) :
                    /\ all_cols[j].line = all_cols[k].line
                    /\ all_cols[j].name = all_cols[k].name
                    /\ all_cols[j].col = all_cols[k].col}
        first == CHOOSE j \in same : \A j2 \in same : j <= j2
    IN  Extraction1Width(all_cols, first)

RECURSIVE Extraction1Build(_, _, _)
Extraction1Build(all_cols, k, acc) ==
    IF k > Len(all_cols) THEN acc
    ELSE IF all_cols[k].name \in Required("extraction1")
    THEN Extraction1Build(all_cols, k + 1,
            Append(acc, FieldSpec(all_cols[k].name, all_cols[k].line, all_cols[k].col,
                                  Extraction1Lookup(all_cols, k),
                                  Extraction1Dtype(all_cols[k].vtype))))
    ELSE Extraction1Build(all_cols, k + 1, acc)

Extraction1Parse(lines) ==
    Extraction1Build(Extraction1Collect(lines, 1, 1, <<>>), 1, <<>>)

\* The outcomes the script's Schema Parser can have on a dictionary.
ParseOutcomes(s, lines) ==
    CASE s = "data_extraction" -> {Parsed("none", v) : v \in DataExtractionSchemas(lines)}
      [] s = "extraction1" -> {Parsed("none", Extraction1Parse(lines))}
      [] OTHER -> {Extraction0Parse(s, lines, 1, 1, <<>>)}

-----------------------------------------------------------------------------
(* Inputs of a run: the dictionary and the flat data file *)

Dictionaries ==
    { \* the Stata layout: each marker opens its line
      << <<LineTok(1)>>, <<ColTok(1), Word("str2"), Word("childid")>>,
         <<LineTok(3)>>, <<ColTok(2), Word("long"), Word("X1TCHCON")>>,
         <<LineTok(5)>>, <<ColTok(1), Word("double"), Word("X2HPARNT")>> >>,
      \* a word before each column marker
      << <<Word("infix"), ColTok(1), Word("str2"), Word("CHILDID")>>,
         <<LineTok(3)>>,
         <<Word("infix"), ColTok(2), Word("int"), Word("x1tchcon")>>,
         <<Word("infix"), ColTok(3)>> >>,
      \* a field on record line 28, declared before CHILDID
      << <<LineTok(28)>>, <<Word("infix"), ColTok(1), Word("int"), Word("X1TCHCON")>>,
         <<LineTok(1)>>, <<Word("infix"), ColTok(1), Word("str2"), Word("CHILDID")>> >>,
      \* a type token whose suffix is no number
      << <<ColTok(1), Word("str2"), Word("CHILDID")>>,
         <<Word("infix"), ColTok(5), Word("strL"), Word("ZZZ")>> >>,
      \* record line 0, marker and column on one line
      << <<LineTok(0), ColTok(1), Word("str2"), Word("CHILDID")>>,
         <<Word("infix"), ColTok(2), Word("LONG"), Word("X1KAGE")>> >>,
      \* no CHILDID
      << <<LineTok(3)>>, <<Word("infix"), ColTok(2), Word("byte"), Word("X1TCHCON")>>,
         <<ColTok(2), Word("byte"), Word("X1TCHCON")>> >>,
      \* a zero-width text type, and two fields at one column of one line
      << <<Word("infix"), ColTok(1), Word("str0"), Word("CHILDID")>>,
         <<Word("infix"), ColTok(1), Word("int"), Word("X1TCHCON")>> >>,
      \* three fields of one record line, declared from right to left
      << <<Word("infix"), ColTok(4), Word("double"), Word("X2HPARNT")>>,
         <<Word("infix"), ColTok(3), Word("byte"), Word("ZZZ")>>,
         <<Word("infix"), ColTok(1), Word("int"), Word("X1TCHCON")>> >>,
      \* no field at all
      << <<Word("dictionary")>> >> }

DigitChar(d) ==
    CASE d = 0 -> "0" [] d = 1 -> "1" [] d = 2 -> "2" [] d = 3 -> "3"
      [] d = 4 -> "4" [] d = 5 -> "5" [] d = 6 -> "6" [] d = 7 -> "7"
      [] d = 8 -> "8" [] d = 9 -> "9"

\* The flat data files: variant 1 gives every record its own identifier,
\* variant 2 gives every record the same one.
DataVariants == {1, 2}

\* Physical line i (1-based) of the flat file, newline stripped.
FileLine(v, i) ==
    LET r == ((i - 1) \div LINES_PER_RECORD) + 1
        l == ((i - 1) % LINES_PER_RECORD) + 1
    IN  CASE l = 1 -> <<"1", DigitChar(IF v = 2 THEN 1 ELSE r)>>
          [] l = 3 -> <<" ", "4", DigitChar(r)>>
          [] l = 5 -> IF r = 1 THEN <<"-", "9">> ELSE <<"2", ".", "5">>
          [] l = LINES_PER_RECORD -> <<"z", DigitChar(r)>>
          [] OTHER -> <<"x">>

\* The longest flat file read.
MaxLines == 56

-----------------------------------------------------------------------------
(* Record Extractor: the loop over the flat file's lines                   *)
(*   data_extraction.py 152-225, extraction0.py 122-151,                   *)
(*   extraction1.py 211-258, extract_ecls_variables.py 112-147             *)

\* The keys of a row dict, in the order of their first assignment.
RECURSIVE Columns(_)
Columns(specs) ==
    IF specs = <<>> THEN <<>>
    ELSE LET before == Columns(SubSeq(specs, 1, Len(specs) - 1))
             name == specs[Len(specs)].name
         IN  IF \E k \in 1..Len(before) : before[k] = name THEN before
             ELSE Append(before, name)

\* Decoding every field of one record: err is the exception that escaped
\* the loop over the fields ("none" if none did), cells the row dict's
\* values in the order of Columns (a later field of the same name
\* overwrites an earlier one).
DecodeRow(s, specs, rec) ==
    LET out == [k \in 1..Len(specs) |-> DecodeField(s, specs[k], rec)]
        cols == Columns(specs)
        lastOf(name) == CHOOSE k \in 1..Len(specs) :
                            /\ specs[k].name = name
                            /\ \A j \in (k + 1)..Len(specs) : specs[j].name # name
    IN  [err |-> IF \E k \in 1..Len(specs) : out[k].err # "none"
                 THEN out[CHOOSE k \in 1..Len(specs) : out[k].err # "none"].err
                 ELSE "none",
         cells |-> [c \in 1..Len(cols) |-> out[lastOf(cols[c])].value]]

\* len(current_record) == 27
RecordCompleteAtTwentySix(buf) == Len(buf) = LINES_PER_RECORD - 1
RecordComplete(buf) == Len(buf) = LINES_PER_RECORD

\* current_record = []
ResetKeepsLastLine(buf) == <<buf[Len(buf)]>>
Reset(buf) == <<>>

\* The exception a missing input file ends the script with.
MissingFileIgnored(s) == "none"
MissingFile(s) == IF s = "data_extraction" THEN "exit(1)" ELSE "FileNotFoundError"

-----------------------------------------------------------------------------
(* Tables (pandas DataFrames): cols is the sequence of column names, rows  *)
(* the sequence of rows, each a sequence of cells aligned with cols.       *)

Table(cols, rows) == [cols |-> cols, rows |-> rows]

HasCol(tb, name) == \E c \in 1..Len(tb.cols) : tb.cols[c] = name
ColPos(tb, name) == CHOOSE c \in 1..Len(tb.cols) : tb.cols[c] = name
ColumnOf(tb, name) == [r \in 1..Len(tb.rows) |-> tb.rows[r][ColPos(tb, name)]]

\* pd.DataFrame(data_rows): no row gives a frame without columns.
Frame(specs, rows) == Table(IF rows = <<>> THEN <<>> ELSE Columns(specs), rows)

\* str(n) for an integer.
RECURSIVE NatText(_)
NatText(n) ==
    IF n < 10 THEN <<DigitChar(n)>>
    ELSE Append(NatText(n \div 10), DigitChar(n % 10))
IntText(n) == IF n < 0 THEN <<"-">> \o NatText(-n) ELSE NatText(n)

\* repr of the float n / 10^e (e fraction digits, none of them trailing
\* zeros): "11.0", "2.5", "-0.25".
RECURSIVE FractionText(_, _)
FractionText(f, e) ==
    IF e = 0 THEN <<>>
    ELSE Append(FractionText(f \div 10, e - 1), DigitChar(f % 10))
RECURSIVE TenTo(_)
TenTo(e) == IF e = 0 THEN 1 ELSE 10 * TenTo(e - 1)
FloatText(n, e) ==
    LET a == IF n < 0 THEN -n ELSE n
        sign == IF n < 0 THEN <<"-">> ELSE <<>>
    IN  IF e = 0 THEN sign \o NatText(a) \o <<".", "0">>
        ELSE sign \o NatText(a \div TenTo(e)) \o <<".">> \o FractionText(a % TenTo(e), e)

\* Series.astype(str): the text of each cell depends on the dtype pandas
\* gave the column (object when it holds text, int64 when every cell is an
\* integer, float64 when numbers are mixed with missing cells).
AsTypeStr(cells) ==
    LET n == Len(cells)
        object == \/ \E r \in 1..n : cells[r].k = "str"
                  \/ \A r \in 1..n : cells[r].k = "none"
        int64 == \A r \in 1..n : cells[r].k = "int"
        text(c) ==
            CASE c.k = "str" -> c.s
              [] c.k = "none" -> IF object THEN <<"N", "o", "n", "e">> ELSE <<"n", "a", "n">>
              [] c.k = "nan" -> <<"n", "a", "n">>
              [] c.k = "int" -> IF object \/ int64 THEN IntText(c.n) ELSE FloatText(c.n, 0)
              [] c.k = "float" -> FloatText(c.n, c.e)
    IN  [r \in 1..n |-> StrCell(text(cells[r]))]

\* df[name] = df[name].astype(str).str.strip()
NormalizeIds(tb, name) ==
    LET p == ColPos(tb, name)
        ids == AsTypeStr(ColumnOf(tb, name))
    IN  Table(tb.cols,
              [r \in 1..Len(tb.rows) |->
                  [tb.rows[r] EXCEPT ![p] = StrCell(Strip(ids[r].s))]])

\* df.drop(columns=drop)
RECURSIVE KeepPositions(_, _, _)
KeepPositions(cols, drop, c) ==
    IF c > Len(cols) THEN <<>>
    ELSE IF cols[c] \in drop THEN KeepPositions(cols, drop, c + 1)
    ELSE <<c>> \o KeepPositions(cols, drop, c + 1)
DropColumns(tb, drop) ==
    LET keep == KeepPositions(tb.cols, drop, 1)
    IN  Table([c \in 1..Len(keep) |-> tb.cols[keep[c]]],
              [r \in 1..Len(tb.rows) |->
                  [c \in 1..Len(keep) |-> tb.rows[r][keep[c]]]])

\* The suffixes DataFrame.merge gives a column name both frames have.
SuffixX(name) ==
    CASE name = "X1TCHCON" -> "X1TCHCON_x"
      [] name = "CHILDID" -> "CHILDID_x"
      [] OTHER -> "_x"
SuffixY(name) ==
    CASE name = "X1TCHCON" -> "X1TCHCON_y"
      [] name = "CHILDID" -> "CHILDID_y"
      [] OTHER -> "_y"

RECURSIVE Flatten(_)
Flatten(seqs) == IF seqs = <<>> THEN <<>> ELSE Head(seqs) \o Flatten(Tail(seqs))

HasDuplicates(cells) ==
    \E a, b \in 1..Len(cells) : a # b /\ cells[a] = cells[b]

\* left.merge(right, left_on=lon, right_on=ron, how="left"): every left
\* row, in order, once per right row with an equal key (in the right
\* frame's order), or once with NaN in the right columns when there is none.
InnerJoin(left, right, lon, ron) ==
    LET lp == ColPos(left, lon)
        rp == ColPos(right, ron)
        kept == KeepPositions(right.cols, IF lon = ron THEN {ron} ELSE {}, 1)
        part(rrow) == [c \in 1..Len(kept) |-> rrow[kept[c]]]
        joined(lrow) ==
            LET IsMatch(rrow) == rrow[rp] = lrow[lp]
                matches == SelectSeq(right.rows, IsMatch)
            IN  [m \in 1..Len(matches) |-> lrow \o part(matches[m])]
    IN  Table(left.cols \o [c \in 1..Len(kept) |-> right.cols[kept[c]]],
              Flatten([r \in 1..Len(left.rows) |-> joined(left.rows[r])]))
LeftJoin(left, right, lon, ron) ==
    LET lp == ColPos(left, lon)
        rp == ColPos(right, ron)
        kept == KeepPositions(right.cols, IF lon = ron THEN {ron} ELSE {}, 1)
        shared == {left.cols[c] : c \in 1..Len(left.cols)}
                    \cap {right.cols[kept[c]] : c \in 1..Len(kept)}
        part(rrow) == [c \in 1..Len(kept) |-> rrow[kept[c]]]
        joined(lrow) ==
            LET IsMatch(rrow) == rrow[rp] = lrow[lp]
                matches == SelectSeq(right.rows, IsMatch)
            IN  IF matches = <<>> THEN <<lrow \o [c \in 1..Len(kept) |-> NaN]>>
                ELSE [m \in 1..Len(matches) |-> lrow \o part(matches[m])]
    IN  Table([c \in 1..Len(left.cols) |->
                  IF left.cols[c] \in shared THEN SuffixX(left.cols[c]) ELSE left.cols[c]]
              \o [c \in 1..Len(kept) |->
                  IF right.cols[kept[c]] \in shared THEN SuffixY(right.cols[kept[c]])
                  ELSE right.cols[kept[c]]],
              Flatten([r \in 1..Len(left.rows) |-> joined(left.rows[r])]))

\* validate="1:1": the merge keys are unique in both frames.
OneToOneRightOnly(left, right, lon, ron) ==
    ~HasDuplicates(ColumnOf(right, ron))
OneToOne(left, right, lon, ron) ==
    /\ ~HasDuplicates(ColumnOf(left, lon))
    /\ ~HasDuplicates(ColumnOf(right, ron))

\* The outcome of a script's merge block: err is the exception raised
\* ("none" if none), table the merged frame.
Merged(err, tb) == [err |-> err, table |-> tb]

-----------------------------------------------------------------------------
(* Table Merger of extraction0.py, lines 161-165, and of                   *)
(* extract_ecls_variables.py, lines 172-176 (the same code)                *)

Extraction0Merge(existing, new) ==
    IF ~HasCol(existing, "childid") \/ ~HasCol(new, "CHILDID")
    THEN Merged("KeyError", NoTable)
    ELSE Merged("none",
                LeftJoin(NormalizeIds(existing, "childid"),
                         NormalizeIds(new, "CHILDID"), "childid", "CHILDID"))

-----------------------------------------------------------------------------
(* Table Merger of extraction1.py, lines 268-305 *)

Extraction1Merge(existing, new) ==
    IF ~HasCol(new, "CHILDID") THEN Merged("RuntimeError", NoTable)
    ELSE IF ~HasCol(existing, "childid") THEN Merged("KeyError", NoTable)
    ELSE LET df_old == NormalizeIds(existing, "childid")
             df_ids == NormalizeIds(new, "CHILDID")
             existing_lower == {Lower(df_old.cols[c]) : c \in 1..Len(df_old.cols)}
             cols_to_drop == {df_ids.cols[c] : c \in
                                {d \in 1..Len(df_ids.cols) :
                                    /\ Lower(df_ids.cols[d]) \in existing_lower
                                    /\ Upper(df_ids.cols[d]) # "CHILDID"}}
             df_kept == DropColumns(df_ids, cols_to_drop)
         IN  IF ~OneToOne(df_old, df_kept, "childid", "CHILDID")
             THEN Merged("MergeError", NoTable)
             ELSE Merged("none", LeftJoin(df_old, df_kept, "childid", "CHILDID"))

-----------------------------------------------------------------------------
(* Table Merger of data_extraction.py, lines 257-310 *)

\* "CHILDID" in col.upper(), on the column names of the model.
IsIdName(name) == Upper(name) = "CHILDID"

\* The first column whose name holds CHILDID, "" (None) when there is none.
FirstIdCol(tb) ==
    IF \E c \in 1..Len(tb.cols) : IsIdName(tb.cols[c])
    THEN tb.cols[CHOOSE c \in 1..Len(tb.cols) :
                    /\ IsIdName(tb.cols[c])
                    /\ \A d \in 1..(c - 1) : ~IsIdName(tb.cols[d])]
    ELSE ""

DataExtractionMerge(existing, new) ==
    LET id_col_extracted == FirstIdCol(new)
        id_col_existing == FirstIdCol(existing)
    IN  IF id_col_extracted = "" \/ id_col_existing = ""
        THEN Merged("none", existing)
        ELSE LET df_old == NormalizeIds(existing, id_col_existing)
                 df_ids == NormalizeIds(new, id_col_extracted)
                 existing_cols == {Upper(df_old.cols[c]) : c \in 1..Len(df_old.cols)}
                 cols_to_drop == {df_ids.cols[c] : c \in
                                    {d \in 1..Len(df_ids.cols) :
                                        /\ Upper(df_ids.cols[d]) \in existing_cols
                                        /\ Upper(df_ids.cols[d]) # Upper(id_col_extracted)}}
                 df_kept == DropColumns(df_ids, cols_to_drop)
                 df_final == LeftJoin(df_old, df_kept, id_col_existing, id_col_extracted)
             IN  Merged("none",
                        IF id_col_extracted # id_col_existing /\ HasCol(df_final, id_col_extracted)
                        THEN DropColumns(df_final, {id_col_extracted})
                        ELSE df_final)

\* The merge block of script s applied to the canonical and extracted frames.
MergeBlock(s, existing, new) ==
    CASE s = "data_extraction" -> DataExtractionMerge(existing, new)
      [] s = "extraction1" -> Extraction1Merge(existing, new)
      [] OTHER -> Extraction0Merge(existing, new)

-----------------------------------------------------------------------------
(* The scripts as state machines *)

Init ==
    /\ NoVersions
    /\ script \in Scripts
    /\ pc = "start"
    /\ dct \in Dictionaries
    /\ variant \in DataVariants
    /\ var_specs = <<>>
    /\ consumed = 0 /\ current_record = <<>> /\ data_rows = <<>>
    /\ crash = "none" /\ written = {}
    /\ dec = NoOutcome
    /\ df_existing = NoTable /\ df_new = NoTable /\ df_complete = NoTable

\* The dictionary file is missing: exit(1) or an uncaught FileNotFoundError.
DictionaryMissing ==
    /\ pc = "start"
    /\ crash' = MissingFile(script)
    /\ pc' = "aborted"
    /\ UNCHANGED versionVars
    /\ UNCHANGED <<script, dct, var_specs, variant, consumed, current_record,
                   data_rows, written, dec, df_existing, df_new, df_complete>>

\* The Schema Parser runs to its end.
ParseDictionary ==
    /\ pc = "start"
    /\ \E o \in ParseOutcomes(script, dct) :
          /\ o.err = "none"
          /\ var_specs' = o.specs
    /\ pc' = "open"
    /\ UNCHANGED versionVars
    /\ UNCHANGED <<script, dct, variant, consumed, current_record, data_rows,
                   crash, written, dec, df_existing, df_new, df_complete>>

\* The Schema Parser raises (int() of a type token's suffix).
ParseRaises ==
    /\ pc = "start"
    /\ \E o \in ParseOutcomes(script, dct) :
          /\ o.err # "none"
          /\ crash' = o.err
    /\ pc' = "aborted"
    /\ UNCHANGED versionVars
    /\ UNCHANGED <<script, dct, var_specs, variant, consumed, current_record,
                   data_rows, written, dec, df_existing, df_new, df_complete>>

DataFileMissing ==
    /\ pc = "open"
    /\ crash' = MissingFile(script)
    /\ pc' = "aborted"
    /\ UNCHANGED versionVars
    /\ UNCHANGED <<script, dct, var_specs, variant, consumed, current_record,
                   data_rows, written, dec, df_existing, df_new, df_complete>>

OpenDataFile ==
    /\ pc = "open"
    /\ pc' = "extract"
    /\ UNCHANGED versionVars
    /\ UNCHANGED <<script, dct, var_specs, variant, consumed, current_record,
                   data_rows, crash, written, dec, df_existing, df_new, df_complete>>

\* One iteration of the loop that does not complete a record.
ReadLine ==
    /\ pc = "extract" /\ script # "extraction1"
    /\ consumed < MaxLines
    /\ LET buf == Append(current_record, FileLine(variant, consumed + 1))
       IN  /\ ~RecordComplete(buf)
           /\ current_record' = buf
    /\ consumed' = consumed + 1
    /\ UNCHANGED versionVars
    /\ UNCHANGED <<script, pc, dct, var_specs, variant, data_rows, crash,
                   written, dec, df_existing, df_new, df_complete>>

\* One iteration that completes a record: every field is decoded, the row
\* is appended and the buffer reset.
EmitRow ==
    /\ pc = "extract" /\ script # "extraction1"
    /\ consumed < MaxLines
    /\ LET buf == Append(current_record, FileLine(variant, consumed + 1))
           row == DecodeRow(script, var_specs, buf)
       IN  /\ RecordComplete(buf)
           /\ row.err = "none"
           /\ data_rows' = Append(data_rows, row.cells)
           /\ current_record' = Reset(buf)
    /\ consumed' = consumed + 1
    /\ UNCHANGED versionVars
    /\ UNCHANGED <<script, pc, dct, var_specs, variant, crash, written, dec,
                   df_existing, df_new, df_complete>>

\* One iteration that completes a record one of whose fields raises: the
\* exception is not caught and ends the script.
DecodeRaises ==
    /\ pc = "extract" /\ script # "extraction1"
    /\ consumed < MaxLines
    /\ LET buf == Append(current_record, FileLine(variant, consumed + 1))
           row == DecodeRow(script, var_specs, buf)
       IN  /\ RecordComplete(buf)
           /\ row.err # "none"
           /\ crash' = row.err
           /\ current_record' = buf
    /\ consumed' = consumed + 1
    /\ pc' = "aborted"
    /\ UNCHANGED versionVars
    /\ UNCHANGED <<script, dct, var_specs, variant, data_rows, written, dec,
                   df_existing, df_new, df_complete>>

\* extraction1.py, line 218: the name LINE_COUNT is defined nowhere, so the
\* first iteration raises NameError after appending its line.
LineCountUndefined ==
    /\ pc = "extract" /\ script = "extraction1"
    /\ consumed < MaxLines
    /\ current_record' = Append(current_record, FileLine(variant, consumed + 1))
    /\ consumed' = consumed + 1
    /\ crash' = "NameError"
    /\ pc' = "aborted"
    /\ UNCHANGED versionVars
    /\ UNCHANGED <<script, dct, var_specs, variant, data_rows, written, dec,
                   df_existing, df_new, df_complete>>

\* The flat file has no further line: the loop ends and the rows become a
\* DataFrame.
EndOfInput ==
    /\ pc = "extract"
    /\ df_new' = Frame(var_specs, data_rows)
    /\ pc' = "frame"
    /\ UNCHANGED versionVars
    /\ UNCHANGED <<script, dct, var_specs, variant, consumed, current_record,
                   data_rows, crash, written, dec, df_existing, df_complete>>

\* extraction1.py, lines 268-269: the extracted frame has no CHILDID column.
NoIdentifier ==
    /\ pc = "frame" /\ script = "extraction1"
    /\ ~HasCol(df_new, "CHILDID")
    /\ crash' = "RuntimeError"
    /\ pc' = "aborted"
    /\ UNCHANGED versionVars
    /\ UNCHANGED <<script, dct, var_specs, variant, consumed, current_record,
                   data_rows, written, dec, df_existing, df_new, df_complete>>

\* extraction0.py 157, extraction1.py 272, extract_ecls_variables.py 160:
\* the extracted frame is written to its own CSV file.
SaveExtracted ==
    /\ pc = "frame" /\ script # "data_extraction"
    /\ script = "extraction1" => HasCol(df_new, "CHILDID")
    /\ written' = written \cup {"extracted"}
    /\ pc' = "saved"
    /\ UNCHANGED versionVars
    /\ UNCHANGED <<script, dct, var_specs, variant, consumed, current_record,
                   data_rows, crash, dec, df_existing, df_new, df_complete>>

\* Where each script stands when it turns to data/ECLSData.csv.
AtMerge == pc = (IF script = "data_extraction" THEN "frame" ELSE "saved")

\* The canonical tables data/ECLSData.csv may hold, as pd.read_csv gives them.
CanonicalTables ==
    { Table(<<"childid", "score">>,
            << <<IntCell(11), IntCell(1)>>, <<IntCell(12), IntCell(2)>>,
               <<IntCell(13), IntCell(3)>> >>),
      Table(<<"childid", "X1TCHCON">>, << <<IntCell(11), IntCell(7)>> >>),
      Table(<<"CHILDID", "score">>,
            << <<IntCell(11), IntCell(1)>>, <<IntCell(12), IntCell(2)>> >>),
      Table(<<"score">>, << <<IntCell(1)>> >>),
      Table(<<"childid", "score">>,
            << <<IntCell(11), IntCell(1)>>, <<IntCell(11), IntCell(2)>> >>) }

\* data/ECLSData.csv is missing and the script stops: pd.read_csv raises
\* (extraction0, extract_ecls_variables), extraction1.py 277-278 raises,
\* data_extraction.py 242-244 exits when it extracted no column either.
CanonicalMissing ==
    /\ AtMerge
    /\ script = "data_extraction" => df_new.cols = <<>>
    /\ crash' = MissingFile(script)
    /\ pc' = "aborted"
    /\ UNCHANGED versionVars
    /\ UNCHANGED <<script, dct, var_specs, variant, consumed, current_record,
                   data_rows, written, dec, df_existing, df_new, df_complete>>

\* data_extraction.py 311-313 and 344-369: data/ECLSData.csv is missing and
\* the extracted frame alone is written as the final dataset.
UseExtractedOnly ==
    /\ AtMerge /\ script = "data_extraction"
    /\ df_new.cols # <<>>
    /\ df_complete' = df_new
    /\ written' = written \cup {"final", "variables"}
    /\ pc' = "done"
    /\ UNCHANGED versionVars
    /\ UNCHANGED <<script, dct, var_specs, variant, consumed, current_record,
                   data_rows, crash, dec, df_existing, df_new>>

\* What the script makes of the canonical table it read: data_extraction.py
\* 232-241 takes it as it is when no column was extracted.
FinalTable(s, existing, new) ==
    IF s = "data_extraction" /\ new.cols = <<>> THEN Merged("none", existing)
    ELSE MergeBlock(s, existing, new)

\* data/ECLSData.csv is read, merged with the extracted frame and the result
\* written as the final dataset (data_extraction.py also writes the list of
\* variables).
MergeTables ==
    /\ AtMerge
    /\ \E canonical \in CanonicalTables :
          LET m == FinalTable(script, canonical, df_new)
          IN  /\ m.err = "none"
              /\ df_existing' = canonical
              /\ df_complete' = m.table
    /\ written' = written \cup (IF script = "data_extraction"
                                THEN {"final", "variables"} ELSE {"final"})
    /\ pc' = "done"
    /\ UNCHANGED versionVars
    /\ UNCHANGED <<script, dct, var_specs, variant, consumed, current_record,
                   data_rows, crash, dec, df_new>>

\* data/ECLSData.csv is read and the merge block raises.
MergeRaises ==
    /\ AtMerge
    /\ \E canonical \in CanonicalTables :
          LET m == FinalTable(script, canonical, df_new)
          IN  /\ m.err # "none"
              /\ df_existing' = canonical
              /\ crash' = m.err
    /\ pc' = "aborted"
    /\ UNCHANGED versionVars
    /\ UNCHANGED <<script, dct, var_specs, variant, consumed, current_record,
                   data_rows, written, dec, df_new, df_complete>>

Next ==
    \/ DictionaryMissing
    \/ ParseDictionary
    \/ ParseRaises
    \/ DataFileMissing
    \/ OpenDataFile
    \/ ReadLine
    \/ EmitRow
    \/ DecodeRaises
    \/ LineCountUndefined
    \/ EndOfInput
    \/ NoIdentifier
    \/ SaveExtracted
    \/ CanonicalMissing
    \/ UseExtractedOnly
    \/ MergeTables
    \/ MergeRaises

Spec == Init /\ [][Next]_vars

-----------------------------------------------------------------------------
(* The Table Merger on its own: the merge block of each script applied to  *)
(* a canonical table and an extracted table drawn from bounded sets.       *)

\* The most rows a drawn table has.
MaxRows == 2

RECURSIVE SeqsUpTo(_, _)
SeqsUpTo(S, n) ==
    IF n = 0 THEN {<<>>}
    ELSE LET shorter == SeqsUpTo(S, n - 1)
         IN  shorter \cup {Append(q, x) : q \in shorter, x \in S}

\* Identifier cells of the canonical table: integers, or a missing one
\* (which makes pd.read_csv type the column float64).
CanonicalIds == {IntCell(11), IntCell(12), NaN}
\* Identifier cells of the extracted table: trimmed text (one of them
\* zero-padded) or a blank window.
ExtractedIds ==
    {StrCell(<<"1", "1">>), StrCell(<<"1", "2">>), StrCell(<<"0", "1", "1">>), None}

CanonicalShapes ==
    { <<"childid", "score">>, <<"childid", "x1tchcon">>,
      <<"childid", "X1TCHCON">>, <<"CHILDID", "score">> }
ExtractedShapes == { <<"CHILDID", "X1TCHCON">>, <<"X1TCHCON">> }

\* A table of the given columns: the identifier column holds ids, any other
\* column the row number plus offset.
Drawn(shape, ids, offset) ==
    Table(shape,
          [r \in 1..Len(ids) |->
              [c \in 1..Len(shape) |->
                  IF IsIdName(shape[c]) THEN ids[r] ELSE IntCell(offset + r)]])

MergeCanonicals ==
    {Drawn(shape, ids, 0) : shape \in CanonicalShapes, ids \in SeqsUpTo(CanonicalIds, MaxRows)}
MergeExtracteds ==
    {Frame(<<>>, <<>>)} \cup
    {Drawn(shape, ids, 40) : shape \in ExtractedShapes,
                             ids \in SeqsUpTo(ExtractedIds, MaxRows) \ {<<>>}}

InitMerge ==
    /\ NoVersions
    /\ script \in Scripts
    /\ pc = "merge"
    /\ df_existing \in MergeCanonicals
    /\ df_new \in MergeExtracteds
    /\ df_complete = NoTable
    /\ crash = "none" /\ written = {}
    /\ dct = <<>> /\ variant = 1 /\ var_specs = <<>>
    /\ consumed = 0 /\ current_record = <<>> /\ data_rows = <<>>
    /\ dec = NoOutcome

\* The merge block, and the to_csv of the merged frame that follows it when
\* it did not raise.
ApplyMerge ==
    /\ pc = "merge"
    /\ LET m == MergeBlock(script, df_existing, df_new)
       IN  /\ crash' = m.err
           /\ df_complete' = m.table
           /\ written' = IF m.err = "none" THEN written \cup {"final"} ELSE written
    /\ pc' = "merged"
    /\ UNCHANGED versionVars
    /\ UNCHANGED <<script, dct, var_specs, variant, consumed, current_record,
                   data_rows, dec, df_existing, df_new>>

NextMerge == ApplyMerge

SpecMerge == InitMerge /\ [][NextMerge]_vars

-----------------------------------------------------------------------------
(* create_both_versions.py: the variables of the FLEXIBLE and the COMPLETE  *)
(* long-format version.  A wave mapping is a function from waves to column *)
(* names, a version a function from variable names to wave mappings.       *)

\* dict[key] = value
Put(d, key, value) ==
    [k \in DOMAIN d \cup {key} |-> IF k = key THEN value ELSE d[k]]

\* The entries of all_potential_vars the alternative search deals with,
\* and one variable no wave 9 column is listed for.  (parent2_emp is
\* treated by the same code as parent1_emp.)
all_potential_vars ==
    [v \in {"tch_approaches", "ses", "parents_home", "parent1_emp", "age"} |->
        CASE v = "tch_approaches" -> [w \in {2, 4} |-> IF w = 2 THEN "X2TCHAPP" ELSE "X4TCHAPP"]
          [] v = "ses" ->
               [w \in {2, 4, 9} |-> CASE w = 2 -> "x2sesl_i" [] w = 4 -> "x4sesl_i" [] w = 9 -> "x9sesl_i"]
          [] v = "parents_home" ->
               [w \in {2, 4, 9} |-> CASE w = 2 -> "X2HPARNT" [] w = 4 -> "X4HPARNT" [] w = 9 -> "X9HPARNT"]
          [] v = "parent1_emp" ->
               [w \in {2, 4, 9} |-> CASE w = 2 -> "x1par1emp" [] w = 4 -> "x4par1emp_i" [] w = 9 -> "x9par1emp_i"]
          [] v = "age" ->
               [w \in {2, 4, 9} |-> CASE w = 2 -> "X2KAGE_R" [] w = 4 -> "X4KAGE_R" [] w = 9 -> "X9KAGE_R"]]

\* The mappings the alternative search writes.
SesAlternative == all_potential_vars["ses"]
ParentsHomeAlternative == all_potential_vars["parents_home"]
Parent1EmpAlternative ==
    [w \in {2, 4, 9} |-> CASE w = 2 -> "x2par1emp_i" [] w = 4 -> "x4par1emp_i" [] w = 9 -> "x9par1emp_i"]

\* The columns data/ecls_complete_final.csv may have, among those the
\* script looks for.
WideColumns ==
    {all_potential_vars[v][w] : <<v, w>> \in
        {<<v, w>> \in (DOMAIN all_potential_vars) \X {2, 4, 9} : w \in DOMAIN all_potential_vars[v]}}
    \cup {"x2par1emp_i"}

check_variable_exists(var_name) == var_name \in all_columns

\* available_waves of one variable (lines 132-135).
AvailableWaves(wave_dict) ==
    [w \in {w \in DOMAIN wave_dict : check_variable_exists(wave_dict[w])} |-> wave_dict[w]]

InitVersions ==
    /\ script = "create_both_versions"
    /\ pc = "start"
    /\ all_columns \in SUBSET WideColumns
    /\ flexible_vars = NoVars /\ complete_vars = NoVars
    /\ crash = "none" /\ written = {}
    /\ dct = <<>> /\ variant = 0 /\ var_specs = <<>>
    /\ consumed = 0 /\ current_record = <<>> /\ data_rows = <<>>
    /\ dec = NoOutcome
    /\ df_existing = NoTable /\ df_new = NoTable /\ df_complete = NoTable

\* Lines 122-156: each variable is put into the versions its available
\* waves qualify it for.
ClassifyVariables ==
    /\ pc = "start"
    /\ flexible_vars' =
         [v \in {v \in DOMAIN all_potential_vars :
                    DOMAIN AvailableWaves(all_potential_vars[v]) # {}} |->
             AvailableWaves(all_potential_vars[v])]
    /\ complete_vars' =
         [v \in {v \in DOMAIN all_potential_vars :
                    {2, 4, 9} \subseteq DOMAIN AvailableWaves(all_potential_vars[v])} |->
             AvailableWaves(all_potential_vars[v])]
    /\ pc' = "classified"
    /\ UNCHANGED <<script, dct, var_specs, variant, consumed, current_record,
                   data_rows, crash, written, dec, df_existing, df_new, df_complete,
                   all_columns>>

\* Lines 176-216, one block after the other: ok is FALSE when
\* flexible_vars['parents_home'] is subscripted without being there.
AlternativesFound(flexible, complete) ==
    LET f1 == IF check_variable_exists("x2sesl_i")
              THEN Put(flexible, "ses", SesAlternative) ELSE flexible
        c1 == IF check_variable_exists("x2sesl_i")
              THEN Put(complete, "ses", SesAlternative) ELSE complete
        ok == check_variable_exists("X9HPARNT") => "parents_home" \in DOMAIN f1
        f2 == IF check_variable_exists("X9HPARNT") /\ ok
              THEN Put(f1, "parents_home", Put(f1["parents_home"], 9, "X9HPARNT")) ELSE f1
        c2 == IF check_variable_exists("X9HPARNT")
              THEN Put(c1, "parents_home", ParentsHomeAlternative) ELSE c1
        f3 == IF check_variable_exists("x2par1emp_i")
              THEN Put(f2, "parent1_emp", Parent1EmpAlternative) ELSE f2
        c3 == IF check_variable_exists("x2par1emp_i") /\ check_variable_exists("x9par1emp_i")
              THEN Put(c2, "parent1_emp", Parent1EmpAlternative) ELSE c2
        age_dict == AvailableWaves(all_potential_vars["age"])
        age_complete == DOMAIN age_dict = {2, 4, 9}
        f4 == IF age_complete THEN Put(f3, "age", age_dict) ELSE f3
        c4 == IF age_complete THEN Put(c3, "age", age_dict) ELSE c3
    IN  [ok |-> ok, flexible |-> f4, complete |-> c4]

\* Lines 172-216: the search for alternative variables rewrites entries of
\* both versions.
SearchAlternatives ==
    /\ pc = "classified"
    /\ LET found == AlternativesFound(flexible_vars, complete_vars)
       IN  /\ flexible_vars' = found.flexible
           /\ complete_vars' = found.complete
           /\ crash' = IF found.ok THEN "none" ELSE "KeyError"
           /\ pc' = IF found.ok THEN "searched" ELSE "aborted"
    /\ UNCHANGED <<script, dct, var_specs, variant, consumed, current_record,
                   data_rows, written, dec, df_existing, df_new, df_complete,
                   all_columns>>

\* Lines 279-398: both long-format tables and the report are written.
SaveVersions ==
    /\ pc = "searched"
    /\ written' = written \cup {"flexible", "complete", "report"}
    /\ pc' = "done"
    /\ UNCHANGED <<script, dct, var_specs, variant, consumed, current_record,
                   data_rows, crash, dec, df_existing, df_new, df_complete,
                   all_columns, flexible_vars, complete_vars>>

NextVersions ==
    \/ ClassifyVariables
    \/ SearchAlternatives
    \/ SaveVersions

SpecVersions == InitVersions /\ [][NextVersions]_vars

-----------------------------------------------------------------------------
(* Properties of the Field Decoder, checked under SpecDecode *)

\* The field being decoded and the physical line its record_line names.
TheField == var_specs[1]
InRecord(l) == l >= 1 /\ l <= LINES_PER_RECORD
FieldLine == current_record[TheField.line]

AllSpaces(w) == \A i \in 1..Len(w) : w[i] = " "

\* The characters of text at 0-based positions
\* [col - 1, min(col - 1 + width, length)).
ClaimWindow(text, col, width) ==
    LET last == IF col - 1 + width < Len(text) THEN col - 1 + width ELSE Len(text)
    IN  IF Len(text) <= col - 1 THEN <<>>
        ELSE [i \in 1..(last - (col - 1)) |-> text[col - 1 + i]]

\* The number a digit string denotes, read from the left.
RECURSIVE DecimalOf(_, _)
DecimalOf(d, acc) ==
    IF d = <<>> THEN acc ELSE DecimalOf(Tail(d), 10 * acc + DigitVal(Head(d)))

\* w is a digit string with a spaces before it and b spaces after it.
PaddedDigits(w, a, b) ==
    /\ a + b < Len(w)
    /\ \A i \in 1..a : w[i] = " "
    /\ \A i \in (Len(w) - b + 1)..Len(w) : w[i] = " "
    /\ \A i \in (a + 1)..(Len(w) - b) : w[i] \in Digits

\* C4: in every script, a field of type integer or real whose trimmed
\* substring is exactly "-9", "-8", "-7" or "-1" decodes to the missing
\* marker, never to the negative number.
C4_SentinelIsMissing ==
    (/\ pc = "decoded"
     /\ TheField.dtype \in {"int", "float"}
     /\ InRecord(TheField.line) /\ TheField.col >= 1 /\ TheField.width >= 1
     /\ dec.window
     /\ dec.trimmed \in {<<"-", "9">>, <<"-", "8">>, <<"-", "7">>, <<"-", "1">>})
    => IsMissing(dec.value)

\* C5: an integer field whose column window holds a digit string padded
\* with any number of spaces decodes to that integer; the same window
\* holding only spaces decodes to the missing marker.
C5_PaddedIntegerRoundTrip ==
    (/\ pc = "decoded"
     /\ TheField.dtype = "int"
     /\ InRecord(TheField.line) /\ TheField.col >= 1 /\ TheField.width >= 1)
    => LET w == ClaimWindow(FieldLine, TheField.col, TheField.width)
       IN  /\ \A a, b \in 0..Len(w) :
                PaddedDigits(w, a, b)
                => dec.value =
                     IntCell(DecimalOf(SubSeq(w, a + 1, Len(w) - b), 0))
           /\ AllSpaces(w) => IsMissing(dec.value)

\* C5 witness: the window "  42  " has been decoded to the integer 42.
C5_Witness ==
    /\ pc = "decoded"
    /\ TheField.dtype = "int" /\ TheField.line = 1 /\ TheField.col = 1
    /\ ClaimWindow(FieldLine, TheField.col, TheField.width)
         = <<" ", " ", "4", "2", " ", " ">>
    /\ dec.value = IntCell(42)

\* C6: for any line length and any field with column_offset >= 1 and
\* width >= 1 the raw substring is the characters at 0-based positions
\* [column_offset - 1, min(column_offset - 1 + width, length)), it is empty
\* when the line does not reach column_offset - 1, and no error is raised.
C6_WindowIsClamped ==
    (/\ pc = "decoded"
     /\ InRecord(TheField.line) /\ TheField.col >= 1 /\ TheField.width >= 1)
    => /\ dec.err = "none"
       /\ dec.window
       /\ dec.raw = ClaimWindow(FieldLine, TheField.col, TheField.width)
       /\ Len(FieldLine) <= TheField.col - 1 => dec.raw = <<>>

\* C6 witness: a line that starts inside the window and ends before the
\* window does; the substring taken is the clamped, non-empty rest.
C6_Witness ==
    /\ pc = "decoded"
    /\ InRecord(TheField.line) /\ TheField.col >= 2 /\ TheField.width >= 1
    /\ Len(FieldLine) > TheField.col - 1
    /\ Len(FieldLine) < TheField.col - 1 + TheField.width
    /\ dec.raw = SubSeq(FieldLine, TheField.col, Len(FieldLine))
    /\ dec.raw # <<>>

\* What the script's decoder gives a field of this type whose window is
\* blank.
BlankValue(s, dtype) ==
    DecodeField(s, [name |-> "X", line |-> 1, col |-> 1, width |-> 1, dtype |-> dtype],
                [i \in 1..LINES_PER_RECORD |-> <<" ">>]).value

\* C7: a field whose record_line is greater than the number of lines in
\* the record is decoded exactly as if its raw substring were empty, and no
\* error is raised.
C7_LineBeyondRecordIsBlank ==
    (/\ pc = "decoded"
     /\ TheField.line > LINES_PER_RECORD /\ TheField.col >= 1 /\ TheField.width >= 1)
    => /\ dec.err = "none"
       /\ dec.value = BlankValue(script, TheField.dtype)


-----------------------------------------------------------------------------
(* Properties of the Record Extractor, checked under Spec *)

\* The k-th group of LINES_PER_RECORD physical lines of the flat file.
FileRecord(v, k) ==
    [j \in 1..LINES_PER_RECORD |-> FileLine(v, LINES_PER_RECORD * (k - 1) + j)]

\* C1: in data_extraction.py, extraction0.py and extract_ecls_variables.py,
\* after consuming n physical lines the number of rows emitted is
\* floor(n / 27) and the buffer holds n mod 27 lines; a trailing partial
\* buffer emits no row.
C1_RowsAreWholeRecords ==
    script \in {"data_extraction", "extraction0", "extract_ecls_variables"}
    => /\ Len(data_rows) = consumed \div LINES_PER_RECORD
       /\ Len(current_record) = consumed % LINES_PER_RECORD

\* C2: rows are emitted in input order, the k-th row is decoded from the
\* physical lines 27*(k-1)+1 .. 27*k and from no other, and the buffer is
\* empty right after each emission.
C2_RowsInInputOrder ==
    [][data_rows' # data_rows
       => /\ Len(data_rows') = Len(data_rows) + 1
          /\ SubSeq(data_rows', 1, Len(data_rows)) = data_rows
          /\ consumed' = LINES_PER_RECORD * Len(data_rows')
          /\ data_rows'[Len(data_rows')]
               = DecodeRow(script, var_specs, FileRecord(variant, Len(data_rows'))).cells
          /\ current_record' = <<>>]_vars

\* C2 witness: two rows have been emitted from two different records.
C2_Witness ==
    /\ pc = "extract"
    /\ Len(data_rows) = 2 /\ consumed = 2 * LINES_PER_RECORD
    /\ var_specs # <<>>
    /\ data_rows[1] # data_rows[2]
    /\ current_record = <<>>

\* C3: extraction1.py groups the flat file into records of 27 lines: for an
\* existing dictionary and a data file of n lines the extraction loop
\* finishes with floor(n / 27) rows.
C3_Extraction1RowCount ==
    (script = "extraction1" /\ consumed > 0)
    => /\ crash = "none"
       /\ Len(data_rows) = consumed \div LINES_PER_RECORD

\* C8: in every script, when decoding a field of a record raises (its
\* record_line is past the 27 buffered lines), the field becomes the
\* missing marker, the row is still emitted with its other fields decoded,
\* and extraction goes on.
C8_FieldErrorIsAbsorbed ==
    (/\ consumed >= LINES_PER_RECORD
     /\ \E k \in 1..Len(var_specs) : var_specs[k].line > LINES_PER_RECORD)
    => /\ crash = "none"
       /\ Len(data_rows) >= 1
       /\ \A k \in 1..Len(var_specs) :
             var_specs[k].line > LINES_PER_RECORD
             => \E c \in 1..Len(Columns(var_specs)) :
                   /\ Columns(var_specs)[c] = var_specs[k].name
                   /\ IsMissing(data_rows[1][c])


-----------------------------------------------------------------------------
(* Properties of the Table Merger, checked under SpecMerge *)

\* Both frames have the identifier column every script merges on.
BothHaveIds == HasCol(df_existing, "childid") /\ HasCol(df_new, "CHILDID")
CanonicalKeys == ColumnOf(NormalizeIds(df_existing, "childid"), "childid")
ExtractedKeys == ColumnOf(NormalizeIds(df_new, "CHILDID"), "CHILDID")
KeySet(keys) == {keys[r] : r \in 1..Len(keys)}

\* C9: when the extracted identifiers are a strict subset of the canonical
\* identifiers, the merged table has exactly the canonical table's row
\* count, a canonical row with a matching identifier carries the values of
\* an extracted row of that identifier, and an unmatched canonical row has
\* the missing marker in the extracted column.
C9_SubsetMergeKeepsRowCount ==
    ( /\ pc = "merged" /\ crash = "none" /\ BothHaveIds
      /\ KeySet(ExtractedKeys) \subseteq KeySet(CanonicalKeys)
      /\ KeySet(ExtractedKeys) # KeySet(CanonicalKeys) )
    => /\ Len(df_complete.rows) = Len(df_existing.rows)
       /\ (HasCol(df_complete, "X1TCHCON") /\ ~HasCol(df_existing, "X1TCHCON"))
            => \A r \in 1..Len(df_existing.rows) :
                  LET matches == {q \in 1..Len(df_new.rows) :
                                    ExtractedKeys[q] = CanonicalKeys[r]}
                      cell == df_complete.rows[r][ColPos(df_complete, "X1TCHCON")]
                  IN  IF matches = {} THEN IsMissing(cell)
                      ELSE \E q \in matches :
                              cell = df_new.rows[q][ColPos(df_new, "X1TCHCON")]

\* C10: when two rows of the extracted table have the same normalized
\* identifier, one a canonical row has too, the merge fails with a
\* cardinality error and no merged table is produced (so never one with
\* more rows than the canonical table).
C10_DuplicateIdsAreRejected ==
    ( /\ pc = "merged" /\ BothHaveIds
      /\ \E a, b \in 1..Len(ExtractedKeys) :
            /\ a # b /\ ExtractedKeys[a] = ExtractedKeys[b]
            /\ ExtractedKeys[a] \in KeySet(CanonicalKeys) )
    => /\ crash = "MergeError"
       /\ df_complete = NoTable
       /\ Len(df_complete.rows) <= Len(df_existing.rows)


-----------------------------------------------------------------------------
(* Properties of a whole run, checked under Spec *)

\* C11: when the extracted table has columns but no identifier column and
\* the canonical table has been read, the run has stopped with an error and
\* has written no final table.
C11_NoIdentifierAborts ==
    ( /\ pc \in {"done", "aborted"}
      /\ df_new.cols # <<>> /\ FirstIdCol(df_new) = ""
      /\ df_existing # NoTable )
    => /\ crash # "none"
       /\ "final" \notin written

\* The exceptions of the fatal conditions: a missing dictionary, flat file
\* or canonical table, an extracted table without identifier column, and
\* duplicate identifiers in the join.
FatalConditions == {"exit(1)", "FileNotFoundError", "RuntimeError", "KeyError", "MergeError"}

\* C12: a run that ended in a fatal condition has written no output file.
C12_FatalRunWritesNothing ==
    (pc = "aborted" /\ crash \in FatalConditions) => written = {}


-----------------------------------------------------------------------------
(* Further properties of the Table Merger, checked under SpecMerge *)

\* The merge block ran to its end on two frames that have the identifier
\* column every script merges on.
MergeDone == pc = "merged" /\ crash = "none" /\ BothHaveIds

\* C13: every extracted column other than the identifier whose name equals
\* a canonical column name, case-insensitively, leaves exactly one column of
\* that name in the merged table: the canonical one, with the canonical
\* values.
C13_CollidingColumnIsDropped ==
    MergeDone =>
      \A c \in 1..Len(df_new.cols) :
        ( /\ ~IsIdName(df_new.cols[c])
          /\ \E d \in 1..Len(df_existing.cols) :
                Upper(df_existing.cols[d]) = Upper(df_new.cols[c]) )
        => LET same == {k \in 1..Len(df_complete.cols) :
                          Upper(df_complete.cols[k]) = Upper(df_new.cols[c])}
           IN  /\ Cardinality(same) = 1
               /\ \A k \in same :
                    /\ HasCol(df_existing, df_complete.cols[k])
                    /\ Len(df_complete.rows) = Len(df_existing.rows)
                         => ColumnOf(df_complete, df_complete.cols[k])
                              = ColumnOf(df_existing, df_complete.cols[k])

\* A canonical identifier cell and an extracted one denote the same
\* subject: the number read from the canonical table is the number the
\* extracted text spells, zero-padded or not.
SameSubject(canonical, extracted) ==
    /\ canonical.k = "int" /\ extracted.k = "str"
    /\ AllDigits(Strip(extracted.s))
    /\ DigitsValue(Strip(extracted.s)) = canonical.n

\* C14: a canonical row and an extracted row whose identifiers denote the
\* same subject have the same normalized identifier, and the merged table
\* has a row that carries both.
C14_SameSubjectJoins ==
    MergeDone =>
      \A r \in 1..Len(df_existing.rows), q \in 1..Len(df_new.rows) :
        SameSubject(ColumnOf(df_existing, "childid")[r], ColumnOf(df_new, "CHILDID")[q])
        => /\ CanonicalKeys[r] = ExtractedKeys[q]
           /\ (HasCol(df_complete, "X1TCHCON") /\ ~HasCol(df_existing, "X1TCHCON"))
                => \E m \in 1..Len(df_complete.rows) :
                      /\ df_complete.rows[m][ColPos(df_complete, "childid")] = CanonicalKeys[r]
                      /\ df_complete.rows[m][ColPos(df_complete, "X1TCHCON")]
                           = df_new.rows[q][ColPos(df_new, "X1TCHCON")]

\* C15: the merged table does not contain the extracted identifier column
\* CHILDID when the canonical identifier column is named childid.
C15_ExtractedIdColumnIsDropped ==
    MergeDone => ~HasCol(df_complete, "CHILDID")


-----------------------------------------------------------------------------
(* Properties of the Schema Parser, checked under Spec *)

\* The schema has just been built from the dictionary.
SchemaBuilt == pc = "open"

\* C16: every FieldSpec of the schema has width > 0 and record_line >= 1.
C16_WidthAndLineArePositive ==
    SchemaBuilt =>
      \A k \in 1..Len(var_specs) : var_specs[k].width > 0 /\ var_specs[k].line >= 1

\* Token p of dictionary line i is the line's first column-position marker
\* and two further tokens follow it.
Declaration(i, p) ==
    /\ p \in 1..Len(dct[i]) /\ dct[i][p].t = "col"
    /\ \A j \in 1..(p - 1) : dct[i][j].t # "col"
    /\ Len(dct[i]) >= p + 2
HasLineMarker(i) == \E j \in 1..Len(dct[i]) : dct[i][j].t = "line"

\* C17: every dictionary line (without record-line marker) that holds a
\* column-position marker followed by two further tokens, the second a
\* name the script extracts, yields a field entry of that name, wherever
\* the marker sits in the line; the entry has the marker's offset when no
\* later line declares the name again.
C17_EveryDeclarationYieldsEntry ==
    SchemaBuilt =>
      \A i \in 1..Len(dct) : \A p \in 1..Len(dct[i]) :
        ( /\ Declaration(i, p) /\ ~HasLineMarker(i)
          /\ Upper(dct[i][p + 2].w) \in Required(script) )
        => \E k \in 1..Len(var_specs) :
              /\ var_specs[k].name = Upper(dct[i][p + 2].w)
              /\ (\A i2 \in (i + 1)..Len(dct) : \A p2 \in 1..Len(dct[i2]) :
                     Declaration(i2, p2) => Upper(dct[i2][p2 + 2].w) # var_specs[k].name)
                   => var_specs[k].col = dct[i][p].n

\* The number of the most recent record-line marker at or before
\* dictionary line i, 1 when there is none.
RecentLineMarker(i) ==
    IF \E j \in 1..i : HasLineMarker(j)
    THEN LET j == CHOOSE j \in 1..i : HasLineMarker(j) /\ \A j2 \in (j + 1)..i : ~HasLineMarker(j2)
             q == CHOOSE q \in 1..Len(dct[j]) : dct[j][q].t = "line"
         IN  dct[j][q].n
    ELSE 1

\* C20: every FieldSpec comes from a dictionary line that declares its name
\* at its column, and its record_line is the number of the most recent
\* record-line marker at or before that line, 1 when there is none.
C20_RecordLineIsLatestMarker ==
    SchemaBuilt =>
      \A k \in 1..Len(var_specs) :
        \E i \in 1..Len(dct) : \E p \in 1..Len(dct[i]) :
          /\ Declaration(i, p)
          /\ Upper(dct[i][p + 2].w) = var_specs[k].name
          /\ dct[i][p].n = var_specs[k].col
          /\ var_specs[k].line = RecentLineMarker(i)

C20_Witness ==
    /\ SchemaBuilt
    /\ ~HasLineMarker(1)
    /\ \E a, b \in 1..Len(var_specs) : var_specs[a].line = 1 /\ var_specs[b].line = 3


-----------------------------------------------------------------------------
(* Missing input files, checked under Spec *)

\* C18: the step on which the dictionary or the flat data file is found
\* missing ends the run with an error, with no extracted row, no file
\* written and no line read; a run that has ended takes no further step, so
\* no schema is used for extraction afterwards.
C18_MissingInputStopsRun ==
    [][ /\ (DictionaryMissing \/ DataFileMissing)
           => /\ crash' # "none" /\ pc' = "aborted"
              /\ data_rows' = <<>> /\ consumed' = 0
              /\ written' = {} /\ df_new' = NoTable /\ df_complete' = NoTable
        /\ DictionaryMissing => var_specs' = <<>>
        /\ pc # "aborted" ]_vars

C18_Witness ==
    /\ pc = "aborted" /\ crash = MissingFile(script)
    /\ var_specs # <<>> /\ consumed = 0 /\ data_rows = <<>> /\ written = {}


-----------------------------------------------------------------------------
(* Properties of create_both_versions.py, checked under SpecVersions *)

\* C19: once the versions are settled, every variable of the COMPLETE
\* version maps each of the waves 2, 4 and 9 to a column the wide table
\* has, and is a variable of the FLEXIBLE version too.
C19_CompleteVersionIsComplete ==
    pc \in {"searched", "done"} =>
      \A v \in DOMAIN complete_vars :
        /\ \A w \in {2, 4, 9} :
              /\ w \in DOMAIN complete_vars[v]
              /\ complete_vars[v][w] \in all_columns
        /\ v \in DOMAIN flexible_vars


-----------------------------------------------------------------------------
(* Further properties of the Schema Parser, checked under Spec *)

\* The number of the first record-line marker of dictionary line i.
LineMarkerOf(i) == FirstMarker(dct[i], "line")

\* No dictionary line after line i declares the name again.
NotDeclaredAgain(i, name) ==
    \A i2 \in (i + 1)..Len(dct) : \A p2 \in 1..Len(dct[i2]) :
        Declaration(i2, p2) => Upper(dct[i2][p2 + 2].w) # name

\* C21: a dictionary line that carries both a record-line marker _line(k)
\* and a column-position declaration of a name the script extracts yields a
\* FieldSpec of that name at the declared column with record_line k (when
\* no later line declares the name again).
C21_MarkerAndDeclarationOnOneLine ==
    SchemaBuilt =>
      \A i \in 1..Len(dct) : \A p \in 1..Len(dct[i]) :
        ( /\ Declaration(i, p) /\ HasLineMarker(i)
          /\ Upper(dct[i][p + 2].w) \in Required(script)
          /\ NotDeclaredAgain(i, Upper(dct[i][p + 2].w)) )
        => \E k \in 1..Len(var_specs) :
              /\ var_specs[k].name = Upper(dct[i][p + 2].w)
              /\ var_specs[k].col = dct[i][p].n
              /\ var_specs[k].line = LineMarkerOf(i)

\* The scripts that take a field's width from its declared type.
DeclaredTypeScripts == {"data_extraction", "extraction0", "extract_ecls_variables"}

\* The (dtype, width) the declared-type policy states for a type token.
PolicyShape(s, var_type) ==
    IF StrSuffixParses(var_type) THEN <<"str", StrSuffixValue(var_type)>>
    ELSE IF var_type \in {"byte", "int", "long"}
    THEN <<"int", IF s = "data_extraction" THEN IntWidthDataExtraction
                  ELSE IntWidthExtraction0>>
    ELSE IF var_type \in {"float", "double"}
    THEN <<"float", IF s = "data_extraction" THEN FloatWidthDataExtraction
                    ELSE FloatWidthExtraction0>>
    ELSE <<"str", FallbackWidth>>

\* C22: under the declared-type width policy the parser never fails because
\* of a type token, and every FieldSpec has the dtype and width the policy
\* states for the type token of a line that declares it: str<N> a text field
\* of width N, byte/int/long an integer field of one fixed width,
\* float/double a real field of another, anything else (strL included) a
\* text field of width 10.
C22_DeclaredTypeWidthPolicy ==
    script \in DeclaredTypeScripts =>
      /\ crash # "ValueError"
      /\ SchemaBuilt =>
           \A k \in 1..Len(var_specs) :
             \E i \in 1..Len(dct) : \E p \in 1..Len(dct[i]) :
               /\ Declaration(i, p)
               /\ Upper(dct[i][p + 2].w) = var_specs[k].name
               /\ dct[i][p].n = var_specs[k].col
               /\ <<var_specs[k].dtype, var_specs[k].width>>
                    = PolicyShape(script, dct[i][p + 1].w)

\* Dictionary line i declares a field; the token its column marker is, and
\* the record line the declaration belongs to.
IsDeclaration(i) == \E p \in 1..Len(dct[i]) : Declaration(i, p)
MarkerPos(i) == CHOOSE p \in 1..Len(dct[i]) : Declaration(i, p)
DeclaredName(i) == Upper(dct[i][MarkerPos(i) + 2].w)
DeclaredCol(i) == dct[i][MarkerPos(i)].n

\* Declaration j comes after declaration i when the fields of their record
\* line are sorted by column offset.
ComesAfter(i, j) ==
    /\ IsDeclaration(j) /\ RecentLineMarker(j) = RecentLineMarker(i)
    /\ \/ DeclaredCol(i) < DeclaredCol(j)
       \/ DeclaredCol(i) = DeclaredCol(j) /\ i < j

\* The width the next-column policy states for the field declared on
\* dictionary line i.
NextColumnWidth(i) ==
    LET later == {j \in 1..Len(dct) : ComesAfter(i, j)}
    IN  IF later = {} THEN 20
        ELSE LET nxt == CHOOSE j \in later : \A j2 \in later : j = j2 \/ ComesAfter(j, j2)
             IN  DeclaredCol(nxt) - DeclaredCol(i)

\* C23: in extraction1.py every declared field the script extracts has a
\* FieldSpec whose width is the offset of the next field of its record line
\* (requested or not) minus its own offset, 20 for the last field of the
\* line; every FieldSpec is such a field's; and the windows of two
\* FieldSpecs of one record line with distinct offsets do not overlap.
C23_NextColumnWidthPolicy ==
    (script = "extraction1" /\ SchemaBuilt) =>
      /\ \A i \in 1..Len(dct) :
           ( /\ IsDeclaration(i) /\ ~HasLineMarker(i)
             /\ DeclaredName(i) \in Required(script) )
           => \E k \in 1..Len(var_specs) :
                 /\ var_specs[k].name = DeclaredName(i)
                 /\ var_specs[k].line = RecentLineMarker(i)
                 /\ var_specs[k].col = DeclaredCol(i)
                 /\ var_specs[k].width = NextColumnWidth(i)
      /\ \A k \in 1..Len(var_specs) :
           \E i \in 1..Len(dct) :
              /\ IsDeclaration(i)
              /\ var_specs[k].name = DeclaredName(i)
              /\ var_specs[k].line = RecentLineMarker(i)
              /\ var_specs[k].col = DeclaredCol(i)
              /\ var_specs[k].width = NextColumnWidth(i)
      /\ \A a, b \in 1..Len(var_specs) :
           (var_specs[a].line = var_specs[b].line /\ var_specs[a].col < var_specs[b].col)
           => var_specs[a].col + var_specs[a].width <= var_specs[b].col

\* C24: under the declared-type width policy the window
\* [column_offset, column_offset + width) of a FieldSpec ends at or before
\* the column offset of every field the dictionary declares at a larger
\* offset on the same record line.
C24_DeclaredWindowsDoNotOverlap ==
    (script \in DeclaredTypeScripts /\ SchemaBuilt) =>
      \A k \in 1..Len(var_specs) : \A j \in 1..Len(dct) :
        ( /\ IsDeclaration(j)
          /\ RecentLineMarker(j) = var_specs[k].line
          /\ DeclaredCol(j) > var_specs[k].col )
        => var_specs[k].col + var_specs[k].width <= DeclaredCol(j)

\* C26: no two FieldSpecs of the schema used for extraction have the same
\* name, whatever the dictionary declares.
C26_NamesAreUnique ==
    SchemaBuilt =>
      \A a, b \in 1..Len(var_specs) :
        var_specs[a].name = var_specs[b].name => a = b

-----------------------------------------------------------------------------
(* Further properties of a whole run, checked under Spec *)

\* The run is over, its extraction produced a table with columns, and the
\* canonical table was never read: data/ECLSData.csv did not exist.
EndedWithoutCanonical ==
    /\ pc \in {"done", "aborted"}
    /\ df_new.cols # <<>>
    /\ df_existing = NoTable

\* C25: a run whose extraction produced a table and which found the
\* canonical table file missing has stopped with an error and has written no
\* final dataset.
C25_MissingCanonicalAborts ==
    EndedWithoutCanonical => (crash # "none" /\ pc = "aborted" /\ "final" \notin written)

-----------------------------------------------------------------------------
(* Further properties of the Field Decoder, checked under SpecDecode *)

\* text is a run of consecutive characters of line, all of them at 1-based
\* columns col .. col + width - 1.
DrawnFromWindow(text, line, col, width) ==
    LET lo == Max(col, 1)
        hi == Min(col + width - 1, Len(line))
    IN  \/ text = <<>>
        \/ \E a \in lo..hi : \E b \in a..hi : text = SubSeq(line, a, b)

\* C27: whenever the decoder takes a substring for a field, it takes it
\* from physical line record_line of the record and from no other, and the
\* substring consists of characters at columns
\* column_offset .. column_offset + width - 1 of that line; the text that is
\* converted is that substring, trimmed.
C27_ReadsOnlyItsWindow ==
    (pc = "decoded" /\ dec.window)
    => /\ dec.src = TheField.line
       /\ DrawnFromWindow(dec.raw, current_record[dec.src], TheField.col, TheField.width)
       /\ dec.trimmed = Strip(dec.raw)

\* The sentinel strings of a script, and whether int() or float() accepts
\* a text.
SentinelStrings(s) ==
    IF s = "extraction1"
    THEN {<<"-", "9">>, <<"-", "8">>, <<"-", "7">>, <<"-", "4">>,
          <<"-", "3">>, <<"-", "2">>, <<"-", "1">>}
    ELSE {<<"-", "9">>, <<"-", "8">>, <<"-", "7">>, <<"-", "1">>}
Unparsable(dtype, text) ==
    IF dtype = "int" THEN ~IntParses(text) ELSE ~FloatParses(text)

-----------------------------------------------------------------------------
(* Properties of the join, checked under SpecMerge *)

\* C29: in extraction1.py, when two rows of the canonical table have the
\* same normalized identifier, the merge fails with a cardinality error and
\* no merged table is produced or written, also when every extracted
\* identifier is unique.
C29_CanonicalDuplicatesAreRejected ==
    ( /\ pc = "merged" /\ script = "extraction1" /\ BothHaveIds
      /\ HasDuplicates(CanonicalKeys) )
    => /\ crash = "MergeError"
       /\ df_complete = NoTable
       /\ "final" \notin written

\* C29 witness: the canonical table holds one identifier twice, the
\* extracted table two different ones, and the merge has been refused.
C29_Witness ==
    /\ pc = "merged" /\ script = "extraction1" /\ BothHaveIds
    /\ HasDuplicates(CanonicalKeys)
    /\ Len(ExtractedKeys) = 2 /\ ~HasDuplicates(ExtractedKeys)
    /\ crash = "MergeError" /\ written = {}

\* The merge block of data_extraction.py or extraction1.py ran to its end
\* on two frames with identifier columns, the extracted identifiers unique.
FrameCase ==
    /\ pc = "merged" /\ crash = "none"
    /\ script \in {"data_extraction", "extraction1"}
    /\ FirstIdCol(df_existing) # "" /\ HasCol(df_new, "CHILDID")
    /\ ~HasDuplicates(ExtractedKeys)

\* The trimmed text of a canonical identifier cell of an all-integer column.
IdText(cell) == StrCell(Strip(IntText(cell.n)))

=============================================================================
